---------------------------- MODULE Spec2Model ----------------------------
(***************************************************************************)
(* A model of the CHIP-8 interpreter of src/src/chip8.rs.                  *)
(*                                                                         *)
(* The whole machine is one byte array, memory: [u8; 0x1000]; every        *)
(* register is a view into it.  The operations are operators on that       *)
(* array, translated line by line.  A Rust panic (an index out of bounds,  *)
(* or an arithmetic overflow in a build with overflow checks) ends the     *)
(* call and the machine; a build without overflow checks wraps instead.    *)
(* Which of the two the build does is fixed per behaviour by the variable  *)
(* overflow_checks.                                                        *)
(***************************************************************************)
EXTENDS Integers, Sequences, FiniteSets, TLC

VARIABLES
    memory,           \* Chip8::memory, 0..4095 -> 0..255
    panicked,         \* TRUE once a call has panicked
    overflow_checks,  \* TRUE: arithmetic overflow panics; FALSE: it wraps
    pre,              \* memory before the last call
    pre2,             \* memory before the call before the last
    log               \* the calls made so far, oldest first

vars == <<memory, panicked, overflow_checks, pre, pre2, log>>

---------------------------------------------------------------------------
(* Memory layout, chip8.rs lines 87-101.                                   *)

MEMORY_SIZE == 4096
FONT_ADDR == 0
V_REGISTERS_ADDR == 80
STACK_ADDR == 96
DISPLAY_BUFFER_ADDR == 128
STACK_POINTER_ADDR == 384
SOUND_TIMER_ADDR == 385
DELAY_TIMER_ADDR == 386
PROGRAM_COUNTER_ADDR == 387
INDEX_REGISTER_ADDR == 389
WAIT_KEY_PRESS_FLAG_ADDR == 391
KEY_FLAGS_ADDR == 392
DISPLAY_WIDTH == 64
DISPLAY_HEIGHT == 32
DISPLAY_BUFFER_SIZE == (DISPLAY_HEIGHT * DISPLAY_WIDTH) \div 8

FONT ==
    << 1022367, 156199, 991119, 991007,
       630545, 1019679, 1019807, 987716,
       1023903, 1023775, 1023897, 958110,
       1017999, 956830, 1019791, 1019784 >>

---------------------------------------------------------------------------
(* Fixed-width arithmetic.                                                 *)

Pow2(k) == << 1, 2, 4, 8, 16, 32, 64, 128, 256 >>[k + 1]

BitAt(v, k) == (v \div Pow2(k)) % 2

BitAnd(a, b) ==
    BitAt(a, 0) * BitAt(b, 0) + 2 * BitAt(a, 1) * BitAt(b, 1)
    + 4 * BitAt(a, 2) * BitAt(b, 2) + 8 * BitAt(a, 3) * BitAt(b, 3)
    + 16 * BitAt(a, 4) * BitAt(b, 4) + 32 * BitAt(a, 5) * BitAt(b, 5)
    + 64 * BitAt(a, 6) * BitAt(b, 6) + 128 * BitAt(a, 7) * BitAt(b, 7)

\* An exclusive or written as an inclusive or.
BitXorAsOr(a, b) == a + b - BitAnd(a, b)

BitXor(a, b) == a + b - 2 * BitAnd(a, b)

BitOr(a, b) == a + b - BitAnd(a, b)

\* The result of an operation: the memory it leaves and whether it panicked.
Ok(m) == [mem |-> m, panicked |-> FALSE]

Panic(m) == [mem |-> m, panicked |-> TRUE]

\* self.memory[a] = v; the index is checked.
Store(m, a, v) == IF a < MEMORY_SIZE THEN Ok([m EXCEPT ![a] = v]) ELSE Panic(m)

---------------------------------------------------------------------------
(* Accessors, chip8.rs lines 181-289.                                      *)

get_key_pressed(m, key) == m[KEY_FLAGS_ADDR + key] > 0

is_waiting_for_key(m) == BitAnd(m[WAIT_KEY_PRESS_FLAG_ADDR], 128) > 0

set_waiting_for_key(m) ==
    [m EXCEPT ![WAIT_KEY_PRESS_FLAG_ADDR] = BitOr(@, 128)]

clear_waiting_for_key(m) ==
    [m EXCEPT ![WAIT_KEY_PRESS_FLAG_ADDR] = BitAnd(@, 127)]

get_waiting_key_destination(m) == BitAnd(m[WAIT_KEY_PRESS_FLAG_ADDR], 15)

set_waiting_key_destination(m, x) ==
    [m EXCEPT ![WAIT_KEY_PRESS_FLAG_ADDR] = BitOr(BitAnd(@, 240), x)]

get_v(m, index) == m[V_REGISTERS_ADDR + index]

set_v(m, index, value) == [m EXCEPT ![V_REGISTERS_ADDR + index] = value]

\* A set_awaited_key that ignores the recorded destination.
set_awaited_key_to_v0(m, key) == set_v(m, 0, key)

set_awaited_key(m, key) == set_v(m, get_waiting_key_destination(m), key)

get_dt(m) == m[DELAY_TIMER_ADDR]

set_dt(m, value) == [m EXCEPT ![DELAY_TIMER_ADDR] = value]

get_st(m) == m[SOUND_TIMER_ADDR]

set_st(m, value) == [m EXCEPT ![SOUND_TIMER_ADDR] = value]

get_i(m) == m[INDEX_REGISTER_ADDR] * 256 + m[INDEX_REGISTER_ADDR + 1]

set_i(m, value) ==
    [m EXCEPT ![INDEX_REGISTER_ADDR] = (value \div 256) % 256,
              ![INDEX_REGISTER_ADDR + 1] = value % 256]

get_sp(m) == m[STACK_POINTER_ADDR]

set_sp(m, value) == [m EXCEPT ![STACK_POINTER_ADDR] = value]

get_pc(m) == m[PROGRAM_COUNTER_ADDR] * 256 + m[PROGRAM_COUNTER_ADDR + 1]

set_pc(m, value) ==
    [m EXCEPT ![PROGRAM_COUNTER_ADDR] = (value \div 256) % 256,
              ![PROGRAM_COUNTER_ADDR + 1] = value % 256]


---------------------------------------------------------------------------
(* Construction, chip8.rs lines 108-119.                                   *)

\* The font loop, iteration k of 80: digit = k div 5, byte = k mod 5;
\* memory[digit * byte] = (FONT[digit] >> (16 - byte * 4) & 0xFF) as u8.
RECURSIVE install_font(_, _)
install_font(m, k) ==
    IF k = 80 THEN m
    ELSE LET digit == k \div 5
             byte  == k % 5
             shift == 16 - byte * 4
             value == (FONT[digit + 1] \div (2 ^ shift)) % 256
         IN  install_font([m EXCEPT ![digit * byte] = value], k + 1)

new == install_font([a \in 0 .. MEMORY_SIZE - 1 |-> 0], 0)

---------------------------------------------------------------------------
(* Stack and fetch, chip8.rs lines 271-289.  chk is the build's overflow   *)
(* checking.                                                               *)

\* pop_from_stack: the result carries the popped value as well.
pop_from_stack(m, chk) ==
    LET sp     == get_sp(m)
        offset == (sp * 2) % 256
        m1     == set_sp(m, (sp - 1) % 256)
        \* u16::from(memory[..]) >> 8 | u16::from(memory[.. + 1])
        value  == BitOr(m1[STACK_ADDR + offset] \div 256,
                        m1[STACK_ADDR + offset + 1])
    IN  IF chk /\ sp * 2 > 255 THEN [mem |-> m, panicked |-> TRUE, value |-> 0]
        ELSE IF chk /\ sp - 1 < 0 THEN [mem |-> m, panicked |-> TRUE, value |-> 0]
        ELSE [mem |-> m1, panicked |-> FALSE, value |-> value]

push_into_stack(m, value, chk) ==
    LET sp     == get_sp(m)
        m1     == set_sp(m, (sp + 1) % 256)
        sp1    == get_sp(m1)
        offset == (sp1 * 2) % 256
    IN  IF chk /\ sp + 1 > 255 THEN Panic(m)
        ELSE IF chk /\ sp1 * 2 > 255 THEN Panic(m1)
        ELSE Ok([m1 EXCEPT ![STACK_ADDR + offset] = (value \div 256) % 256,
                           ![STACK_ADDR + offset + 1] = value % 256])

\* fetch_opcode reads memory[pc] and memory[pc + 1]; either index may be out
\* of bounds, and pc + 1 may overflow u16.
fetch_panics(m, chk) ==
    LET pc == get_pc(m)
    IN  \/ pc >= MEMORY_SIZE
        \/ chk /\ pc + 1 > 65535
        \/ (pc + 1) % 65536 >= MEMORY_SIZE

\* u16::from(memory[pc]) >> 8 | u16::from(memory[pc + 1])
fetch_opcode(m) ==
    LET pc == get_pc(m)
    IN  BitOr(m[pc] \div 256, m[(pc + 1) % 65536])

---------------------------------------------------------------------------
(* The 35 operations, chip8.rs lines 291-514.  Each takes the memory and   *)
(* the decoded fields and returns Ok(memory') or Panic(memory').           *)

cls(m) ==
    Ok([a \in 0 .. MEMORY_SIZE - 1 |->
          IF a >= DISPLAY_BUFFER_ADDR /\ a < DISPLAY_BUFFER_ADDR + DISPLAY_BUFFER_SIZE
          THEN 0 ELSE m[a]])

ret(m, chk) ==
    LET p == pop_from_stack(m, chk)
    IN  IF p.panicked THEN Panic(p.mem) ELSE Ok(set_pc(p.mem, p.value))

jmp_direct(m, addr) == Ok(set_pc(m, addr))

call(m, addr, chk) ==
    LET current_pc == get_pc(m)
        p == push_into_stack(m, current_pc, chk)
    IN  IF p.panicked THEN p ELSE Ok(set_pc(p.mem, addr))

\* self.set_pc(self.get_pc() + 2), as the skips and the dispatcher do it.
advance_pc(m, chk) ==
    LET pc == get_pc(m)
    IN  IF chk /\ pc + 2 > 65535 THEN Panic(m) ELSE Ok(set_pc(m, (pc + 2) % 65536))

\* An se_immedate with the comparison inverted.
se_immedate_inverted(m, x, byte, chk) ==
    IF get_v(m, x) # byte THEN advance_pc(m, chk) ELSE Ok(m)

se_immedate(m, x, byte, chk) ==
    IF get_v(m, x) = byte THEN advance_pc(m, chk) ELSE Ok(m)

sne_immedate(m, x, byte, chk) ==
    IF get_v(m, x) # byte THEN advance_pc(m, chk) ELSE Ok(m)

se_registers(m, x, y, chk) ==
    IF get_v(m, x) = get_v(m, y) THEN advance_pc(m, chk) ELSE Ok(m)

sne_registers(m, x, y, chk) ==
    IF get_v(m, x) # get_v(m, y) THEN advance_pc(m, chk) ELSE Ok(m)

ld_immedate(m, x, byte) == Ok(set_v(m, x, byte))

add_immedate(m, x, byte, chk) ==
    LET vx == get_v(m, x)
    IN  IF chk /\ vx + byte > 255 THEN Panic(m)
        ELSE Ok(set_v(m, x, (vx + byte) % 256))

ld_registers(m, x, y) == Ok(set_v(m, x, get_v(m, y)))

or_registers(m, x, y) == Ok(set_v(m, x, BitOr(get_v(m, x), get_v(m, y))))

and_registers(m, x, y) == Ok(set_v(m, x, BitAnd(get_v(m, x), get_v(m, y))))

xor_registers(m, x, y) == Ok(set_v(m, x, BitXor(get_v(m, x), get_v(m, y))))

add_registers(m, x, y, chk) ==
    LET vx == get_v(m, x)
        vy == get_v(m, y)
        m1 == set_v(m, 15, IF vx + vy > 255 THEN 1 ELSE 0)
    IN  IF chk /\ vx + vy > 255 THEN Panic(m1)
        ELSE Ok(set_v(m1, x, (vx + vy) % 256))

sub_registers(m, x, y, chk) ==
    LET vx == get_v(m, x)
        vy == get_v(m, y)
        m1 == set_v(m, 15, IF vx > vy THEN 1 ELSE 0)
    IN  IF chk /\ vx - vy < 0 THEN Panic(m1)
        ELSE Ok(set_v(m1, x, (vx - vy) % 256))

subn_registers(m, x, y, chk) ==
    LET vx == get_v(m, x)
        vy == get_v(m, y)
        m1 == set_v(m, 15, IF vy > vx THEN 1 ELSE 0)
    IN  IF chk /\ vy - vx < 0 THEN Panic(m1)
        ELSE Ok(set_v(m1, x, (vy - vx) % 256))

shr(m, x) ==
    LET vx == get_v(m, x)
    IN  Ok(set_v(set_v(m, 15, BitAnd(vx, 1)), x, vx \div 2))

shl(m, x) ==
    LET vx == get_v(m, x)
    IN  Ok(set_v(set_v(m, 15, vx \div 128), x, (vx * 2) % 256))

ld_index(m, addr) == Ok(set_i(m, addr))

jmp_indirect(m, addr) == Ok(set_pc(m, addr + get_v(m, 0)))

\* rand::random::<u8>() is the input random.
rnd(m, x, byte, random) == Ok(set_v(m, x, BitAnd(random, byte)))

skp(m, x, chk) ==
    IF get_key_pressed(m, get_v(m, x)) THEN advance_pc(m, chk) ELSE Ok(m)

sknp(m, x, chk) ==
    IF ~get_key_pressed(m, get_v(m, x)) THEN advance_pc(m, chk) ELSE Ok(m)

ld_from_dt(m, x) == Ok(set_v(m, x, get_dt(m)))

ld_key_press(m, x) == Ok(set_waiting_for_key(set_waiting_key_destination(m, x)))

ld_into_dt(m, x) == Ok(set_dt(m, get_v(m, x)))

ld_into_st(m, x) == Ok(set_st(m, get_v(m, x)))

add_index(m, x, chk) ==
    LET vx == get_v(m, x)
        i  == get_i(m)
    IN  IF chk /\ i + vx > 65535 THEN Panic(m)
        ELSE Ok(set_i(m, (i + vx) % 65536))

ld_font_addr(m, x) == Ok(set_i(m, FONT_ADDR + get_v(m, x) * 5))

ld_bcd(m, x) ==
    LET vx == get_v(m, x)
        i  == get_i(m)
        r1 == Store(m, i, (vx \div 100) % 10)
        r2 == Store(r1.mem, i + 1, (vx \div 10) % 10)
        r3 == Store(r2.mem, i + 2, vx % 10)
    IN  IF r1.panicked THEN r1 ELSE IF r2.panicked THEN r2 ELSE r3

\* The loop of ld_into_mem from register v_reg_index on; i + v_reg_index is
\* u16 arithmetic.
RECURSIVE ld_into_mem_from(_, _, _, _, _)
ld_into_mem_from(m, i, x, v_reg_index, chk) ==
    IF v_reg_index > x THEN Ok(m)
    ELSE IF chk /\ i + v_reg_index > 65535 THEN Panic(m)
    ELSE LET r == Store(m, (i + v_reg_index) % 65536, get_v(m, v_reg_index))
         IN  IF r.panicked THEN r
             ELSE ld_into_mem_from(r.mem, i, x, v_reg_index + 1, chk)

ld_into_mem(m, x, chk) == ld_into_mem_from(m, get_i(m), x, 0, chk)

RECURSIVE ld_from_mem_from(_, _, _, _, _)
ld_from_mem_from(m, i, x, v_reg_index, chk) ==
    IF v_reg_index > x THEN Ok(m)
    ELSE IF chk /\ i + v_reg_index > 65535 THEN Panic(m)
    ELSE IF (i + v_reg_index) % 65536 >= MEMORY_SIZE THEN Panic(m)
    ELSE ld_from_mem_from(set_v(m, v_reg_index, m[(i + v_reg_index) % 65536]),
                          i, x, v_reg_index + 1, chk)

ld_from_mem(m, x, chk) == ld_from_mem_from(m, get_i(m), x, 0, chk)

---------------------------------------------------------------------------
(* drw, chip8.rs lines 420-448.                                            *)

\* The row offset with the product by WIDTH not held to eight bits.
drw_row_offset_wide(vy, i) ==
    ((((vy + i) % 256) % DISPLAY_HEIGHT) * DISPLAY_WIDTH) \div 8

\* (vy + i) % HEIGHT * WIDTH / 8 in u8 arithmetic, wrapped.
drw_row_offset(vy, i) ==
    (((((vy + i) % 256) % DISPLAY_HEIGHT) * DISPLAY_WIDTH) % 256) \div 8

\* The u8 overflows of lines 434-438 for row i: vy + i, the product by WIDTH,
\* vx + 7, and a shift left by 8.
drw_row_overflows(vx, vy, i) ==
    \/ vy + i > 255
    \/ (((vy + i) % 256) % DISPLAY_HEIGHT) * DISPLAY_WIDTH > 255
    \/ vx + 7 > 255
    \/ 8 - (vx % 8) > 7

\* One pass of the loop body, rows i .. n - 1; overflow is the accumulator.
RECURSIVE drw_rows(_, _, _, _, _, _, _, _)
drw_rows(m, vx, vy, index, i, n, overflow, chk) ==
    IF i >= n THEN [mem |-> m, panicked |-> FALSE, overflow |-> overflow]
    ELSE IF chk /\ drw_row_overflows(vx, vy, i)
    THEN [mem |-> m, panicked |-> TRUE, overflow |-> overflow]
    ELSE IF index + i >= MEMORY_SIZE
    THEN [mem |-> m, panicked |-> TRUE, overflow |-> overflow]
    ELSE LET addr_left  == (vx % DISPLAY_WIDTH) + drw_row_offset(vy, i)
             addr_right == (((vx + 7) % 256) % DISPLAY_WIDTH) + drw_row_offset(vy, i)
             data       == m[index + i]
             data_left  == data \div Pow2(vx % 8)
             \* a u8 shift amount is taken modulo 8 when unchecked
             data_right == (data * Pow2((8 - (vx % 8)) % 8)) % 256
             m1 == [m EXCEPT ![DISPLAY_BUFFER_ADDR + addr_left] = BitXor(@, data_left)]
             o1 == BitOr(overflow,
                         BitAnd(BitXor(m1[DISPLAY_BUFFER_ADDR + addr_left], data_left),
                                data_left))
             m2 == [m1 EXCEPT ![DISPLAY_BUFFER_ADDR + addr_right] = BitXor(@, data_right)]
             o2 == BitOr(o1,
                         BitAnd(BitXor(m2[DISPLAY_BUFFER_ADDR + addr_right], data_right),
                                data_right))
         IN  drw_rows(m2, vx, vy, index, i + 1, n, o2, chk)

drw(m, x, y, n, chk) ==
    LET r == drw_rows(m, get_v(m, x), get_v(m, y), get_i(m), 0, n, 0, chk)
    IN  IF r.panicked THEN Panic(r.mem)
        ELSE Ok(set_v(r.mem, 15, IF r.overflow # 0 THEN 1 ELSE 0))

---------------------------------------------------------------------------
(* Decode and dispatch, chip8.rs lines 129-179.                            *)

\* Lines 136-178: the fields of the opcode, the one operation whose pattern
\* matches (the patterns are mutually exclusive, so the chain of ifs runs at
\* most one), and the dispatcher's set_pc(get_pc() + 2), which follows every
\* operation.
dispatch(m, opcode, random, chk) ==
    LET c   == (opcode \div 4096) % 16
        nnn == opcode % 4096
        nn  == opcode % 256
        n   == opcode % 16
        x   == (opcode \div 256) % 16
        y   == (opcode \div 16) % 16
        r   ==
          CASE c = 0 /\ nn = 224 -> cls(m)
            [] c = 0 /\ nn = 238 -> ret(m, chk)
            [] c = 1             -> jmp_direct(m, nnn)
            [] c = 2             -> call(m, nnn, chk)
            [] c = 3             -> se_immedate(m, x, nn, chk)
            [] c = 4             -> sne_immedate(m, x, nn, chk)
            [] c = 5 /\ n = 0    -> se_registers(m, x, y, chk)
            [] c = 6             -> ld_immedate(m, x, nn)
            [] c = 7             -> add_immedate(m, x, nn, chk)
            [] c = 8 /\ n = 0    -> ld_registers(m, x, y)
            [] c = 8 /\ n = 1    -> or_registers(m, x, y)
            [] c = 8 /\ n = 2    -> and_registers(m, x, y)
            [] c = 8 /\ n = 3    -> xor_registers(m, x, y)
            [] c = 8 /\ n = 4    -> add_registers(m, x, y, chk)
            [] c = 8 /\ n = 5    -> sub_registers(m, x, y, chk)
            [] c = 8 /\ n = 6    -> shr(m, x)
            [] c = 8 /\ n = 7    -> subn_registers(m, x, y, chk)
            [] c = 8 /\ n = 14   -> shl(m, x)
            [] c = 9 /\ n = 0    -> sne_registers(m, x, y, chk)
            [] c = 10            -> ld_index(m, nnn)
            [] c = 11            -> jmp_indirect(m, nnn)
            [] c = 12            -> rnd(m, x, nn, random)
            [] c = 13            -> drw(m, x, y, n, chk)
            [] c = 14 /\ nn = 158 -> skp(m, x, chk)
            [] c = 14 /\ nn = 161 -> sknp(m, x, chk)
            [] c = 15 /\ nn = 7   -> ld_from_dt(m, x)
            [] c = 15 /\ nn = 10  -> ld_key_press(m, x)
            [] c = 15 /\ nn = 21  -> ld_into_dt(m, x)
            [] c = 15 /\ nn = 24  -> ld_into_st(m, x)
            [] c = 15 /\ nn = 30  -> add_index(m, x, chk)
            [] c = 15 /\ nn = 41  -> ld_font_addr(m, x)
            [] c = 15 /\ nn = 51  -> ld_bcd(m, x)
            [] c = 15 /\ nn = 85  -> ld_into_mem(m, x, chk)
            [] c = 15 /\ nn = 101 -> ld_from_mem(m, x, chk)
            [] OTHER -> Ok(m)
    IN  IF r.panicked THEN r ELSE advance_pc(r.mem, chk)

\* An execute_instruction without the key-wait gate.
execute_opcode_ungated(m, opcode, random, chk) ==
    IF fetch_panics(m, chk) THEN Panic(m) ELSE dispatch(m, opcode, random, chk)

\* An execute_instruction that takes 0nnn, other than CLS and RET, for a jump
\* to the routine at nnn.
execute_opcode_with_sys(m, opcode, random, chk) ==
    IF is_waiting_for_key(m) THEN Ok(m)
    ELSE IF fetch_panics(m, chk) THEN Panic(m)
    ELSE IF (opcode \div 4096) % 16 = 0 /\ opcode % 256 \notin {224, 238}
         THEN advance_pc(jmp_direct(m, opcode % 4096).mem, chk)
         ELSE dispatch(m, opcode, random, chk)

\* execute_instruction with the word the fetch delivers given as opcode:
\* the key-wait gate, the two checked reads of the fetch, then dispatch.
execute_opcode(m, opcode, random, chk) ==
    IF is_waiting_for_key(m) THEN Ok(m)
    ELSE IF fetch_panics(m, chk) THEN Panic(m)
    ELSE dispatch(m, opcode, random, chk)

\* execute_instruction as written: the opcode is what fetch_opcode computes.
execute_instruction(m, random, chk) ==
    IF is_waiting_for_key(m) THEN Ok(m)
    ELSE IF fetch_panics(m, chk) THEN Panic(m)
    ELSE dispatch(m, fetch_opcode(m), random, chk)

\* set_key_pressed, lines 185-191.
set_key_pressed(m, key, pressed) ==
    LET m1 == [m EXCEPT ![KEY_FLAGS_ADDR + key] = IF pressed THEN 1 ELSE 0]
    IN  IF is_waiting_for_key(m1) /\ pressed
        THEN Ok(clear_waiting_for_key(set_awaited_key(m1, key)))
        ELSE Ok(m1)

---------------------------------------------------------------------------
(* The calls a host makes, as actions.  Every call is recorded in log with *)
(* what it was given, the PC and the wait flag it found, and the registers *)
(* and wait byte it left.                                                  *)

Registers(m) == [k \in 0 .. 15 |-> get_v(m, k)]

Entry(kind, opcode, key, pressed, r) ==
    [kind |-> kind, opcode |-> opcode, key |-> key, pressed |-> pressed,
     pc |-> get_pc(memory), waiting |-> is_waiting_for_key(memory),
     after |-> [v |-> Registers(r.mem), wait |-> r.mem[WAIT_KEY_PRESS_FLAG_ADDR],
                pc |-> get_pc(r.mem), panicked |-> r.panicked]]

Finish(entry, r) ==
    /\ memory' = r.mem
    /\ panicked' = r.panicked
    /\ pre' = memory
    /\ pre2' = pre
    /\ log' = Append(log, entry)
    /\ UNCHANGED overflow_checks

\* The values rand::random::<u8>() is drawn from.
RandomBytes == {0, 90, 255}

RandomFor(opcode) == IF (opcode \div 4096) % 16 = 12 THEN RandomBytes ELSE {0}

\* The opcode of the entry of a step: the one fetch_opcode computes, 0 when
\* the fetch is out of the memory and computes none.
Fetched(m) == IF get_pc(m) + 1 < MEMORY_SIZE THEN fetch_opcode(m) ELSE 0

\* execute_instruction(), the opcode being the one fetch_opcode computes.
ExecuteInstruction(max) ==
    /\ ~panicked
    /\ Len(log) < max
    /\ \E random \in RandomFor(Fetched(memory)) :
         LET r == execute_instruction(memory, random, overflow_checks)
         IN  Finish(Entry("step", Fetched(memory), 0, FALSE, r), r)

\* execute_instruction() on a machine whose fetch delivers opcode.
ExecuteOpcode(opcodes, max) ==
    /\ ~panicked
    /\ Len(log) < max
    /\ \E opcode \in opcodes :
         \E random \in RandomFor(opcode) :
           LET r == execute_opcode(memory, opcode, random, overflow_checks)
           IN  Finish(Entry("step", opcode, 0, FALSE, r), r)

\* set_key_pressed(key, pressed).
SetKeyPressed(keys, max) ==
    /\ ~panicked
    /\ Len(log) < max
    /\ \E key \in keys, pressed \in BOOLEAN :
         LET r == set_key_pressed(memory, key, pressed)
         IN  Finish(Entry("key", 0, key, pressed, r), r)

\* The machine after new() and a prologue that has set PC, I and some of the
\* registers: regs maps register indices to their values.
Prepared(pc, i, regs) ==
    LET m == set_i(set_pc(new, pc), i)
    IN  [a \in 0 .. MEMORY_SIZE - 1 |->
           IF a - V_REGISTERS_ADDR \in DOMAIN regs THEN regs[a - V_REGISTERS_ADDR]
           ELSE m[a]]

InitFrom(states) ==
    /\ memory \in states
    /\ panicked = FALSE
    /\ overflow_checks \in BOOLEAN
    /\ pre = memory
    /\ pre2 = memory
    /\ log = << >>

Last == log[Len(log)]

\* Entry e is a step that ran the operation of its opcode to the end.
Ran(e) == e.kind = "step" /\ ~e.waiting /\ ~e.after.panicked

OpClass(opcode) == (opcode \div 4096) % 16
OpX(opcode) == (opcode \div 256) % 16
OpY(opcode) == (opcode \div 16) % 16
OpNN(opcode) == opcode % 256
OpNNN(opcode) == opcode % 4096
OpN(opcode) == opcode % 16

---------------------------------------------------------------------------
(* The program as constructed: new(), then any calls.  The machine is   *)
(* followed from new() and from the state a run of LongRun calls of        *)
(* execute_instruction() has left it in.                                   *)

MaxCalls == 3

LongRun == 2046

HostKeys == {0, 15}

\* What n calls of execute_instruction() make of r, a panicked machine
\* taking no further call.
RECURSIVE Stepped(_, _)
Stepped(r, n) ==
    IF n = 0 \/ r.panicked THEN r
    ELSE IF n = 1 THEN execute_instruction(r.mem, 0, FALSE)
    ELSE LET half == Stepped(r, n \div 2)
         IN  IF half.panicked THEN half ELSE Stepped(half, n - (n \div 2))

Init == InitFrom({new, Stepped(Ok(new), LongRun).mem})

Next == ExecuteInstruction(MaxCalls) \/ SetKeyPressed(HostKeys, MaxCalls)

Spec == Init /\ [][Next]_vars

---------------------------------------------------------------------------
(* The key wait.  The machine has PC at 0x200; I points at the wait byte   *)
(* or into program memory, and V0 holds a byte with or without bit 7.      *)

MaxKeyCalls == 3

KeyOpcodes ==
    { 61450,   \* F00A  LD V0, K
      62730,   \* F50A  LD V5, K
      65290,   \* FF0A  LD VF, K
      61525,   \* F055  LD [I], V0
      27143 }  \* 6A07  LD VA, 7

KeyKeys == {5, 12}

KeyStates ==
    { Prepared(512, i, (0 :> v0)) : i \in {391, 768}, v0 \in {3, 133} }

InitKey == InitFrom(KeyStates)

NextKey == ExecuteOpcode(KeyOpcodes, MaxKeyCalls) \/ SetKeyPressed(KeyKeys, MaxKeyCalls)

SpecKey == InitKey /\ [][NextKey]_vars


IsLdKey(e) == Ran(e) /\ OpClass(e.opcode) = 15 /\ OpNN(e.opcode) = 10

IsPress(e) == e.kind = "key" /\ e.pressed

WaitBit(byte) == BitAnd(byte, 128) > 0

\* C1: whenever the key-wait flag is set, a call of execute_instruction()
\* changes no byte of the memory (PC included) and does not panic.
C1_BlockedStepIsNoOp ==
    (Len(log) > 0 /\ Last.kind = "step" /\ Last.waiting)
        => (memory = pre /\ ~panicked)

C1_Witness ==
    /\ Len(log) > 1
    /\ Last.kind = "step" /\ Last.waiting
    /\ IsLdKey(log[Len(log) - 1])

\* C2: a step that executes LD Vx,K leaves the machine awaiting a key; the
\* next set_key_pressed(k, true) writes k into Vx and into no other
\* register and clears the wait flag; the step after that is not blocked
\* and finds PC at the LD Vx,K's address + 2.
C2_KeyWaitResolves ==
    \A j \in 1 .. Len(log) :
      IsLdKey(log[j]) =>
        /\ WaitBit(log[j].after.wait)
        /\ \A p \in j + 1 .. Len(log) :
             (IsPress(log[p]) /\ \A q \in j + 1 .. p - 1 : ~IsPress(log[q])) =>
               /\ log[p].after.v =
                    [log[p - 1].after.v EXCEPT ![OpX(log[j].opcode)] = log[p].key]
               /\ ~WaitBit(log[p].after.wait)
               /\ \A t \in p + 1 .. Len(log) :
                    (log[t].kind = "step" /\ \A q \in p + 1 .. t - 1 : log[q].kind # "step")
                      => (~log[t].waiting /\ log[t].pc = log[j].pc + 2)

C2_Witness ==
    \E j, p, t \in 1 .. Len(log) :
      /\ j < p /\ p < t
      /\ IsLdKey(log[j]) /\ OpX(log[j].opcode) = 5
      /\ IsPress(log[p]) /\ log[p].key = 12 /\ log[p].after.v[5] = 12
      /\ Ran(log[t]) /\ log[t].pc = log[j].pc + 2

\* C3: the wait flag becomes set only by a step executing LD Vx,K, and
\* becomes clear only by set_key_pressed(k, true).
C3_OnlyLdKeySetsOnlyPressClears ==
    Len(log) > 0 =>
      /\ (~Last.waiting /\ is_waiting_for_key(memory)) => IsLdKey(Last)
      /\ (Last.waiting /\ ~is_waiting_for_key(memory)) => IsPress(Last)

---------------------------------------------------------------------------
(* Control flow.  PC is in the interpreter area, at the conventional       *)
(* program start or at the last word of memory; V0 and V1 hold bytes that  *)
(* are equal or differ, and V0 names a key that is or is not pressed.      *)

MaxFlowCalls == 2

FlowOpcodes ==
    { 4864,    \* 1300  JMP 0x300
      8960,    \* 2300  CALL 0x300
      45824,   \* B300  JMP V0, 0x300
      238,     \* 00EE  RET
      12292,   \* 3004  SE V0, 4
      16388,   \* 4004  SNE V0, 4
      20496,   \* 5010  SE V0, V1
      36880,   \* 9010  SNE V0, V1
      57502,   \* E09E  SKP V0
      57505 }  \* E0A1  SKNP V0

FlowKeys == {4}

FlowStates ==
    { Prepared(pc, 0, (0 :> v0) @@ (1 :> v1)) :
        pc \in {240, 512, 4094}, v0 \in {0, 4}, v1 \in {4, 7} }

InitFlow == InitFrom(FlowStates)

NextFlow ==
    ExecuteOpcode(FlowOpcodes, MaxFlowCalls) \/ SetKeyPressed(FlowKeys, MaxFlowCalls)

SpecFlow == InitFlow /\ [][NextFlow]_vars

IsJmp(e) == Ran(e) /\ OpClass(e.opcode) = 1
IsCall(e) == Ran(e) /\ OpClass(e.opcode) = 2
IsJmpV0(e) == Ran(e) /\ OpClass(e.opcode) = 11
IsRet(e) == Ran(e) /\ OpClass(e.opcode) = 0 /\ OpNN(e.opcode) = 238

\* C4: a step that executes JMP nnn or CALL nnn leaves PC = nnn, and one
\* that executes JMP V0,nnn leaves PC = nnn + V0.
C4_ControlFlowSetsTarget ==
    Len(log) > 0 =>
      /\ (IsJmp(Last) \/ IsCall(Last)) => get_pc(memory) = OpNNN(Last.opcode)
      /\ IsJmpV0(Last) => get_pc(memory) = OpNNN(Last.opcode) + get_v(pre, 0)

\* Whether the skip instruction opcode skips in memory m; opcode is one of
\* 3xnn, 4xnn, 5xy0, 9xy0, Ex9E, ExA1.
IsSkipOpcode(opcode) ==
    \/ OpClass(opcode) \in {3, 4}
    \/ OpClass(opcode) \in {5, 9} /\ OpN(opcode) = 0
    \/ OpClass(opcode) = 14 /\ OpNN(opcode) \in {158, 161}

SkipCondition(m, opcode) ==
    LET vx == m[V_REGISTERS_ADDR + OpX(opcode)]
        vy == m[V_REGISTERS_ADDR + OpY(opcode)]
        down == m[KEY_FLAGS_ADDR + vx] # 0
    IN  CASE OpClass(opcode) = 3 -> vx = OpNN(opcode)
          [] OpClass(opcode) = 4 -> vx # OpNN(opcode)
          [] OpClass(opcode) = 5 -> vx = vy
          [] OpClass(opcode) = 9 -> vx # vy
          [] OpClass(opcode) = 14 /\ OpNN(opcode) = 158 -> down
          [] OpClass(opcode) = 14 /\ OpNN(opcode) = 161 -> ~down
          [] OTHER -> FALSE

\* The skips alone, for runs of more calls: PC at the program start or at
\* the last word of memory, V0 equal to V1 = 4 or not.
MaxSkipCalls == 2

SkipOpcodes == { opcode \in FlowOpcodes : IsSkipOpcode(opcode) }

SkipStates ==
    { Prepared(pc, 0, (0 :> v0) @@ (1 :> 4)) : pc \in {512, 4094}, v0 \in {0, 4} }

InitSkip == InitFrom(SkipStates)

NextSkip ==
    ExecuteOpcode(SkipOpcodes, MaxSkipCalls) \/ SetKeyPressed(FlowKeys, MaxSkipCalls)

SpecSkip == InitSkip /\ [][NextSkip]_vars

\* C5: a step that executes a skip instruction advances PC by 4 when the
\* skip condition holds and by 2 when it does not, and does not panic.
C5_SkipAdvances ==
    (Len(log) > 0 /\ Last.kind = "step" /\ ~Last.waiting
       /\ IsSkipOpcode(Last.opcode) /\ Last.pc + 1 < MEMORY_SIZE)
      => /\ ~panicked
         /\ get_pc(memory) =
              Last.pc + (IF SkipCondition(pre, Last.opcode) THEN 4 ELSE 2)

\* A key skip taken after the key was pressed, and a skip not taken.
C5_Witness ==
    /\ Len(log) = 2
    /\ IsPress(log[1]) /\ Ran(Last)
    /\ Last.opcode = 57502
    /\ get_pc(memory) = Last.pc + 4
    /\ get_pc(pre) = get_pc(pre2)

\* C6: CALL nnn at PC = p followed by RET leaves PC = p + 2 and the stack
\* pointer as it was before the CALL.
C6_CallRetRoundTrip ==
    (Len(log) > 1 /\ IsCall(log[Len(log) - 1]) /\ IsRet(Last))
      => /\ get_pc(memory) = log[Len(log) - 1].pc + 2
         /\ get_sp(memory) = get_sp(pre2)

---------------------------------------------------------------------------
(* Register arithmetic.  V1 = a and V2 = b range over bytes around the     *)
(* carry and borrow boundaries; VF holds a stale flag.                     *)

MaxAluCalls == 1

AluBytes == {0, 1, 5, 100, 127, 128, 200, 255}

AluOpcodes ==
    { 33060,   \* 8124  ADD V1, V2
      33044,   \* 8114  ADD V1, V1
      33268,   \* 81F4  ADD V1, VF
      36628,   \* 8F14  ADD VF, V1
      33061,   \* 8125  SUB V1, V2
      33045,   \* 8115  SUB V1, V1
      33269,   \* 81F5  SUB V1, VF
      36629,   \* 8F15  SUB VF, V1
      36631,   \* 8F17  SUBN VF, V1
      36614,   \* 8F06  SHR VF
      36622 }  \* 8F0E  SHL VF

AluStates ==
    { Prepared(512, 0, (1 :> a) @@ (2 :> b) @@ (15 :> f)) :
        a \in AluBytes, b \in AluBytes, f \in {0, 9} }

InitAlu == InitFrom(AluStates)

NextAlu == ExecuteOpcode(AluOpcodes, MaxAluCalls)

SpecAlu == InitAlu /\ [][NextAlu]_vars

\* The last call was a step that reached the operation of an 8xyN opcode
\* with x other than 0xF.
ReachedAlu(sub) ==
    /\ Len(log) > 0
    /\ Last.kind = "step" /\ ~Last.waiting /\ Last.pc + 1 < MEMORY_SIZE
    /\ OpClass(Last.opcode) = 8 /\ OpN(Last.opcode) = sub
    /\ OpX(Last.opcode) # 15

\* C7: ADD Vx,Vy with VX = a, VY = b and x other than 0xF completes and
\* leaves VX = (a + b) mod 256 and VF = 1 if a + b > 255, otherwise 0.
C7_AddWrapsWithCarry ==
    ReachedAlu(4) =>
      LET a == get_v(pre, OpX(Last.opcode))
          b == get_v(pre, OpY(Last.opcode))
      IN  /\ ~panicked
          /\ get_v(memory, OpX(Last.opcode)) = (a + b) % 256
          /\ get_v(memory, 15) = IF a + b > 255 THEN 1 ELSE 0

\* C8: SUB Vx,Vy with VX = a, VY = b and x other than 0xF leaves VF = 1 if
\* and only if a >= b, and VX = (a - b) mod 256.
C8_SubNoBorrowFlag ==
    ReachedAlu(5) =>
      LET a == get_v(pre, OpX(Last.opcode))
          b == get_v(pre, OpY(Last.opcode))
      IN  /\ ~panicked
          /\ get_v(memory, OpX(Last.opcode)) = (a - b) % 256
          /\ get_v(memory, 15) = IF a >= b THEN 1 ELSE 0

---------------------------------------------------------------------------
(* Drawing.  V1 and V2 are the origin, aligned or not, near or past the    *)
(* right and bottom edges; I points at font bytes, at the byte before VF,  *)
(* into the framebuffer, or at the last byte of memory; the framebuffer    *)
(* starts blank or filled with a pattern.                                  *)

MaxDrawCalls == 2

DrawOpcodes ==
    { 53538,   \* D122  DRW V1, V2, 2
      57122,   \* DF22  DRW VF, V2, 2
      53746,   \* D1F2  DRW V1, VF, 2
      53541 }  \* D125  DRW V1, V2, 5

Framebuffer(m) == [k \in 0 .. DISPLAY_BUFFER_SIZE - 1 |-> m[DISPLAY_BUFFER_ADDR + k]]

\* m with every framebuffer byte set to fill.
Filled(m, fill) ==
    [a \in 0 .. MEMORY_SIZE - 1 |->
       IF a >= DISPLAY_BUFFER_ADDR /\ a < DISPLAY_BUFFER_ADDR + DISPLAY_BUFFER_SIZE
       THEN fill ELSE m[a]]

DrawStates ==
    { Filled(Prepared(512, i, (1 :> vx) @@ (2 :> vy) @@ (15 :> 5)), fill) :
        vx \in {0, 3, 62, 250}, vy \in {2, 30, 255},
        i \in {0, 94, 128, 4095}, fill \in {0, 165} }

InitDraw == InitFrom(DrawStates)

NextDraw == ExecuteOpcode(DrawOpcodes, MaxDrawCalls)

SpecDraw == InitDraw /\ [][NextDraw]_vars

IsDrw(e) == Ran(e) /\ OpClass(e.opcode) = 13

\* Pixel (c, r) of the row-major, MSB-first framebuffer at 0x080.
PixelAt(m, c, r) == BitAt(m[DISPLAY_BUFFER_ADDR + 8 * r + (c \div 8)], 7 - (c % 8))

\* Whether DRW Vx,Vy,n as the claim describes it toggles pixel (c, r) in
\* memory m: the pixel is ((VX + j) mod 64, (VY + i) mod 32) for a set bit
\* j (MSB first) of sprite byte memory[I + i], i < n.
Toggles(m, opcode, c, r) ==
    LET vx == m[V_REGISTERS_ADDR + OpX(opcode)]
        vy == m[V_REGISTERS_ADDR + OpY(opcode)]
        j  == (c - vx) % DISPLAY_WIDTH
        i  == (r - vy) % DISPLAY_HEIGHT
    IN  /\ j < 8 /\ i < OpN(opcode)
        /\ get_i(m) + i < MEMORY_SIZE
        /\ BitAt(m[get_i(m) + i], 7 - j) = 1

\* C9: a step that executes DRW Vx,Vy,n toggles exactly the pixels the
\* sprite's set bits cover, wrapped modulo 64 and 32, and sets VF to 1 if a
\* toggled pixel was set before the draw, else 0.
C9_DrwTogglesSpritePixels ==
    (Len(log) > 0 /\ IsDrw(Last)) =>
      /\ \A c \in 0 .. DISPLAY_WIDTH - 1, r \in 0 .. DISPLAY_HEIGHT - 1 :
           PixelAt(memory, c, r) =
             (PixelAt(pre, c, r) + (IF Toggles(pre, Last.opcode, c, r) THEN 1 ELSE 0)) % 2
      /\ get_v(memory, 15) =
           IF \E c \in 0 .. DISPLAY_WIDTH - 1, r \in 0 .. DISPLAY_HEIGHT - 1 :
                Toggles(pre, Last.opcode, c, r) /\ PixelAt(pre, c, r) = 1
           THEN 1 ELSE 0

\* The last two calls were steps that reached the operation of the same
\* DRW opcode.
DrewTwice ==
    /\ Len(log) > 1
    /\ IsDrw(log[Len(log) - 1])
    /\ Last.kind = "step" /\ ~Last.waiting /\ Last.pc + 1 < MEMORY_SIZE
    /\ Last.opcode = log[Len(log) - 1].opcode

\* C10 as stated: the same DRW Vx,Vy,n executed twice in a row returns the
\* framebuffer to what it was before the first draw, for every x, y, VX, VY,
\* I and n.
C10_DrawTwiceRestores ==
    DrewTwice => (~panicked /\ Framebuffer(memory) = Framebuffer(pre2))

\* The sprite bytes memory[I .. I + n - 1] of the first draw lie outside the
\* framebuffer and do not include VF.
SpriteApart(m, opcode) ==
    \A k \in 0 .. OpN(opcode) - 1 :
      LET a == get_i(m) + k
      IN  /\ a # V_REGISTERS_ADDR + 15
          /\ a < DISPLAY_BUFFER_ADDR \/ a >= DISPLAY_BUFFER_ADDR + DISPLAY_BUFFER_SIZE

\* C10 amended: the same holds when neither x nor y is 0xF and the sprite
\* bytes lie outside the framebuffer and VF; the second draw then completes.
C10_DrawTwiceRestoresApart ==
    (DrewTwice /\ OpX(Last.opcode) # 15 /\ OpY(Last.opcode) # 15
       /\ SpriteApart(pre2, Last.opcode))
      => (~panicked /\ Framebuffer(memory) = Framebuffer(pre2))

\* Two draws onto a filled framebuffer, the first of which changed it.
C10_Witness ==
    /\ DrewTwice /\ ~panicked
    /\ OpX(Last.opcode) # 15 /\ OpY(Last.opcode) # 15
    /\ SpriteApart(pre2, Last.opcode)
    /\ Framebuffer(pre) # Framebuffer(pre2)
    /\ Framebuffer(pre2)[0] = 165
    /\ get_v(memory, 15) = 1

---------------------------------------------------------------------------
(* Transfers between the registers and the memory at I.  I points at the   *)
(* registers (0x050, 0x051), at its own bytes (0x185), into program memory *)
(* (0x300) or at the last byte of the memory.                              *)

MaxMemCalls == 2

MemOpcodes ==
    { 61781,   \* F155  LD [I], V1
      61797,   \* F165  LD V1, [I]
      61491,   \* F033  LD B, V0
      61747 }  \* F133  LD B, V1

MemStates ==
    { Prepared(512, i, (0 :> v0) @@ (1 :> v1)) :
        i \in {80, 81, 389, 768, 4095}, v0 \in {3, 157}, v1 \in {7, 200} }

InitMem == InitFrom(MemStates)

NextMem == ExecuteOpcode(MemOpcodes, MaxMemCalls)

SpecMem == InitMem /\ [][NextMem]_vars

IsLdIntoMem(e) == Ran(e) /\ OpClass(e.opcode) = 15 /\ OpNN(e.opcode) = 85
IsLdFromMem(e) == Ran(e) /\ OpClass(e.opcode) = 15 /\ OpNN(e.opcode) = 101
IsLdBcd(e) == Ran(e) /\ OpClass(e.opcode) = 15 /\ OpNN(e.opcode) = 51

\* C11: LD [I],Vx followed by LD Vx,[I] with the same x and the same I
\* leaves V0..Vx as they were before the first of the two.
C11_StoreLoadRoundTrip ==
    ( /\ Len(log) > 1
      /\ IsLdIntoMem(log[Len(log) - 1]) /\ IsLdFromMem(Last)
      /\ OpX(log[Len(log) - 1].opcode) = OpX(Last.opcode)
      /\ get_i(pre) = get_i(pre2) )
      => \A k \in 0 .. OpX(Last.opcode) : get_v(memory, k) = get_v(pre2, k)

---------------------------------------------------------------------------
(* The font.  A glyph is five rows of four pixels, the five hexadecimal    *)
(* digits of its FONT entry; a row's byte holds them in its high or in its *)
(* low half.                                                               *)

GlyphRow(digit, row) == (FONT[digit + 1] \div (16 ^ (4 - row))) % 16

\* C12: immediately after new(), memory[5d .. 5d+4] holds the five rows of
\* the glyph of d, for every digit d, and every byte from 0x050 on is zero.
C12_FontInstalled ==
    (Len(log) = 0 /\ memory = new)
      => /\ \A digit \in 0 .. 15, row \in 0 .. 4 :
              memory[FONT_ADDR + digit * 5 + row]
                \in {GlyphRow(digit, row), GlyphRow(digit, row) * 16}
         /\ \A a \in V_REGISTERS_ADDR .. MEMORY_SIZE - 1 : memory[a] = 0

---------------------------------------------------------------------------
(* Opcodes outside the patterns of the dispatcher.  The machine has PC at  *)
(* 0x200 or at the last word of the memory.                                *)

MaxDecodeCalls == 2

DecodeOpcodes ==
    { 0,       \* 0000
      291,     \* 0123
      20497,   \* 5011
      33064,   \* 8128
      36881,   \* 9011
      57759,   \* E19F
      61798,   \* F166
      24837 }  \* 6105  LD V1, 5

DecodeStates ==
    { Prepared(pc, 768, (0 :> v0) @@ (1 :> 4)) : pc \in {512, 4094}, v0 \in {0, 4} }

InitDecode == InitFrom(DecodeStates)

NextDecode == ExecuteOpcode(DecodeOpcodes, MaxDecodeCalls)

SpecDecode == InitDecode /\ [][NextDecode]_vars

\* The opcode is of none of the 35 patterns.
MatchesNoPattern(opcode) ==
    \/ OpClass(opcode) = 0 /\ OpNN(opcode) \notin {224, 238}
    \/ OpClass(opcode) \in {5, 9} /\ OpN(opcode) # 0
    \/ OpClass(opcode) = 8 /\ OpN(opcode) \notin {0, 1, 2, 3, 4, 5, 6, 7, 14}
    \/ OpClass(opcode) = 14 /\ OpNN(opcode) \notin {158, 161}
    \/ OpClass(opcode) = 15 /\ OpNN(opcode) \notin {7, 10, 21, 24, 30, 41, 51, 85, 101}

\* C13: a step of the running machine whose fetched opcode matches none of
\* the patterns changes nothing but PC, which it increases by 2.
C13_UnmatchedOnlyAdvances ==
    ( /\ Len(log) > 0
      /\ Last.kind = "step" /\ ~Last.waiting
      /\ Last.pc + 1 < MEMORY_SIZE
      /\ MatchesNoPattern(Last.opcode) )
      => /\ ~panicked
         /\ memory = set_pc(pre, Last.pc + 2)

\* 8128 after LD V1,5: V1 keeps the 5 and PC has advanced twice.
C13_Witness ==
    /\ Len(log) = 2
    /\ log[1].opcode = 24837 /\ Last.opcode = 33064
    /\ Ran(Last)
    /\ get_v(memory, 1) = 5
    /\ get_pc(memory) = 516
    /\ memory # pre

\* C14: LD B,Vx writes the hundreds, tens and ones digits of VX to
\* memory[I], memory[I + 1] and memory[I + 2], and leaves VX and I as they
\* were.
C14_BcdDigitsAndFrame ==
    (Len(log) > 0 /\ IsLdBcd(Last))
      => LET vx == get_v(pre, OpX(Last.opcode))
             i  == get_i(pre)
         IN  /\ memory[i] = (vx \div 100) % 10
             /\ memory[i + 1] = (vx \div 10) % 10
             /\ memory[i + 2] = vx % 10
             /\ get_v(memory, OpX(Last.opcode)) = vx
             /\ get_i(memory) = i

---------------------------------------------------------------------------
(* The fetch, under Spec: the calls of the program as constructed.         *)

\* C15: the opcode a step of the running machine decodes is the big-endian
\* word memory[PC] * 256 + memory[PC + 1].
C15_FetchIsBigEndian ==
    ( /\ Len(log) > 0
      /\ Last.kind = "step" /\ ~Last.waiting
      /\ Last.pc + 1 < MEMORY_SIZE )
      => Last.opcode = pre[Last.pc] * 256 + pre[Last.pc + 1]

---------------------------------------------------------------------------
(* The flag of the arithmetic operations when the destination is VF, under *)
(* SpecAlu.                                                                *)

\* The flag of the 8xyN operation of opcode on machine m: carry, no borrow,
\* the bit shifted out.
FlagOf(m, opcode) ==
    LET vx == get_v(m, OpX(opcode))
        vy == get_v(m, OpY(opcode))
    IN  CASE OpN(opcode) = 4  -> IF vx + vy > 255 THEN 1 ELSE 0
          [] OpN(opcode) = 5  -> IF vx >= vy THEN 1 ELSE 0
          [] OpN(opcode) = 7  -> IF vy >= vx THEN 1 ELSE 0
          [] OpN(opcode) = 6  -> vx % 2
          [] OpN(opcode) = 14 -> vx \div 128

\* C16: after ADD, SUB, SUBN, SHR or SHL with x = 0xF, VF holds the flag of
\* the operation, not its arithmetic result.
C16_FlagSurvivesInVF ==
    ( /\ Len(log) > 0
      /\ Ran(Last)
      /\ OpClass(Last.opcode) = 8
      /\ OpN(Last.opcode) \in {4, 5, 6, 7, 14}
      /\ OpX(Last.opcode) = 15 )
      => get_v(memory, 15) = FlagOf(pre, Last.opcode)

---------------------------------------------------------------------------
(* The call stack.  The machine has PC at 0x200 and has made no call, or   *)
(* is 14 or 15 calls deep.                                                 *)

MaxStackCalls == 3

StackOpcodes ==
    { 8960,    \* 2300  CALL 0x300
      9216,    \* 2400  CALL 0x400
      238 }    \* 00EE  RET

StackDepths == {0, 14, 15}

\* What n steps of CALL 0x300 make of r.
RECURSIVE Called(_, _)
Called(r, n) ==
    IF n = 0 \/ r.panicked THEN r
    ELSE Called(execute_opcode(r.mem, 8960, 0, FALSE), n - 1)

StackStates == { Called(Ok(Prepared(512, 0, << >>)), n).mem : n \in StackDepths }

InitStack == InitFrom(StackStates)

NextStack == ExecuteOpcode(StackOpcodes, MaxStackCalls)

SpecStack == InitStack /\ [][NextStack]_vars

\* Address a is of the stack region, or of the registers SP and PC.
OfStackOrPointers(a) ==
    \/ a >= STACK_ADDR /\ a < DISPLAY_BUFFER_ADDR
    \/ a = STACK_POINTER_ADDR
    \/ a \in {PROGRAM_COUNTER_ADDR, PROGRAM_COUNTER_ADDR + 1}

\* C17: through CALL and RET steps the stack pointer stays in 0..16, and a
\* CALL writes its return address inside the stack region 0x060-0x07F only:
\* it changes no byte of the framebuffer or of any other region.
C17_StackStaysInRegion ==
    /\ get_sp(memory) \in 0 .. 16
    /\ (Len(log) > 0 /\ IsCall(Last))
         => \A a \in 0 .. MEMORY_SIZE - 1 :
              OfStackOrPointers(a) \/ memory[a] = pre[a]

---------------------------------------------------------------------------
(* The index register through the transfers, under SpecMem.                *)

\* C18: LD [I],Vx and LD Vx,[I] leave the index register, bytes 0x185 and
\* 0x186, as it was.
C18_TransfersKeepI ==
    (Len(log) > 0 /\ (IsLdIntoMem(Last) \/ IsLdFromMem(Last)))
      => /\ get_i(memory) = get_i(pre)
         /\ memory[INDEX_REGISTER_ADDR] = pre[INDEX_REGISTER_ADDR]
         /\ memory[INDEX_REGISTER_ADDR + 1] = pre[INDEX_REGISTER_ADDR + 1]

---------------------------------------------------------------------------
(* Faults, under Spec.                                                     *)

\* C19: from new(), no call of execute_instruction() or set_key_pressed()
\* faults: none reads or writes outside the memory, the fetch at PC and
\* PC + 1 included, and the machine is never halted.
C19_CallsNeverFault == ~panicked

---------------------------------------------------------------------------
(* What a draw writes, under SpecDraw.                                     *)

\* The last call is a step that reached drw, to the end or to a panic.
ReachedDrw ==
    /\ Len(log) > 0
    /\ Last.kind = "step" /\ ~Last.waiting
    /\ Last.pc + 1 < MEMORY_SIZE
    /\ OpClass(Last.opcode) = 13

\* The addresses of the framebuffer, of VF, and of PC, which the dispatcher
\* advances after the draw.
FramebufferAndFlag ==
    (DISPLAY_BUFFER_ADDR .. DISPLAY_BUFFER_ADDR + DISPLAY_BUFFER_SIZE - 1)
      \cup {V_REGISTERS_ADDR + 15}
      \cup {PROGRAM_COUNTER_ADDR, PROGRAM_COUNTER_ADDR + 1}

\* C20: DRW Vx,Vy,n writes bytes of the framebuffer 0x080-0x17F and VF only:
\* the byte offsets addr_left and addr_right of every row are below 256, and
\* the other registers, the stack, the timers, I, the key flags and program
\* memory are as before the draw.
C20_DrwWritesFramebufferAndFlag ==
    ReachedDrw =>
      LET vx == get_v(pre, OpX(Last.opcode))
          vy == get_v(pre, OpY(Last.opcode))
      IN  /\ \A i \in 0 .. OpN(Last.opcode) - 1 :
               /\ (vx % DISPLAY_WIDTH) + drw_row_offset(vy, i) < DISPLAY_BUFFER_SIZE
               /\ (((vx + 7) % 256) % DISPLAY_WIDTH) + drw_row_offset(vy, i)
                    < DISPLAY_BUFFER_SIZE
          /\ memory = [a \in FramebufferAndFlag |-> memory[a]] @@ pre
          /\ ~panicked => get_pc(memory) = Last.pc + 2

\* A draw at the bottom right of the display that changed the framebuffer
\* and the flag.
C20_Witness ==
    /\ ReachedDrw /\ Ran(Last)
    /\ get_v(pre, OpX(Last.opcode)) = 62
    /\ get_v(pre, OpY(Last.opcode)) = 30
    /\ Framebuffer(memory) # Framebuffer(pre)
    /\ get_v(memory, 15) = 1
    /\ get_v(pre, 15) = 5

====
